---- MODULE Spec2Model ----
(***************************************************************************)
(* Model of mongo-aggregation-debugger (index.js): the three public entry  *)
(* points log, stages and exec, the private debug routine they share, the  *)
(* partitioning of the aggregation query and the asynchronous series of    *)
(* engine operations (connect, insert, aggregate, dropDatabase, close).    *)
(*                                                                         *)
(* A session is one call of log, stages or exec.  The engine (MongoDB) is  *)
(* external: each of its answers is a nondeterministic success or failure. *)
(* The module-scope names of index.js that are assigned without `var`      *)
(* (`my`, `doSkipStages`) are process-wide globals and are modelled as     *)
(* single variables shared by every session.                               *)
(***************************************************************************)
EXTENDS Integers, Sequences, FiniteSets, TLC

\* ---------------------------------------------------------------- bounds
NumSessions == 2
MaxStages == 2
MaxNow == 2

Sessions == 1..NumSessions

\* ------------------------------------------------------- values of the model
\* An optional value (JavaScript undefined or a value) is a sequence of
\* length 0 or 1.
None == <<>>
Some(x) == <<x>>

NoErr == "null"
ErrInvalidData == "Invalid data"
ErrInvalidQuery == "Invalid query"
ErrConnect == "connect failed"
ErrInsert == "insert failed"
ErrAggregate == "aggregate failed"
ErrDrop == "dropDatabase failed"

\* The stage specifications of the README's example query, opaque to the code.
StageNames == <<"$match", "$project", "$unwind", "$group">>
Pipeline(n) == [i \in 1..n |-> StageNames[((i - 1) % Len(StageNames)) + 1]]

\* The query argument: an array of stages, or a value that is not an array.
NotArray == [isArray |-> FALSE, stages |-> <<>>]
QueryArray(q) == [isArray |-> TRUE, stages |-> q]
QueryInputs == {NotArray} \cup {QueryArray(Pipeline(n)) : n \in 0..MaxStages}

\* The data argument: an array of records, one record, null or a primitive.
DataArray == [type |-> "array", docs |-> <<"doc">>]
DataObject == [type |-> "object", docs |-> <<>>]
DataNull == [type |-> "null", docs |-> <<>>]
DataPrimitive == [type |-> "number", docs |-> <<>>]
DataInputs == {DataArray, DataObject, DataNull, DataPrimitive}

VARIABLES
    debugDatabaseName,  \* my.debugDatabaseName (global `my`), 0 when unset
    doSkipStages,       \* the global doSkipStages: "undefined", "true", "false"
    now,                \* the last value Date.now() returned
    stores,             \* engine: database name -> sessions whose records it holds
    sess                \* session -> its call's local state

vars == <<debugDatabaseName, doSkipStages, now, stores, sess>>

DbNames == 1..MaxNow

\* A session before its call is made.
IdleSession ==
    [pc |-> "idle", api |-> "none", data |-> DataNull, query |-> NotArray,
     showQuery |-> FALSE, dbName |-> 0, skipStages |-> "undefined",
     queryParts |-> <<>>, idx |-> 0, err |-> NoErr, anotherErr |-> NoErr,
     output |-> <<>>, ops |-> <<>>, pending |-> 0, answers |-> <<>>,
     hooks |-> <<>>, cbs |-> <<>>, console |-> 0, banners |-> 0,
     thrown |-> FALSE]

\* ------------------------------------------------------ partitionQuery
\* The forEach loop of partitionQuery after its first k iterations.
RECURSIVE queryPartsAfter(_, _)
queryPartsAfter(query, k) ==
    IF k = 0 THEN <<>>
    ELSE LET queryParts == queryPartsAfter(query, k - 1)
         IN  IF k = 1
             THEN Append(queryParts, <<query[k]>>)
             ELSE Append(queryParts, Append(queryParts[k - 1], query[k]))

partitionQuery(query, skipStages) ==
    IF skipStages THEN <<query>> ELSE queryPartsAfter(query, Len(query))

\* ------------------------------------------- the callbacks given to debug
\* An invocation of the caller's completion callback.
Invocation(err, output) == [err |-> err, output |-> output]

logCb(r, err) ==
    IF err # NoErr
    THEN [r EXCEPT !.cbs = Append(@, Invocation(err, None))]
    ELSE [r EXCEPT !.banners = @ + 1, !.cbs = Append(@, Invocation(NoErr, None))]

stagesCb(r, err) ==
    IF err # NoErr
    THEN [r EXCEPT !.cbs = Append(@, Invocation(err, None))]
    ELSE [r EXCEPT !.cbs = Append(@, Invocation(NoErr, Some(r.output)))]

execCb(r, err) ==
    IF err # NoErr
    THEN [r EXCEPT !.cbs = Append(@, Invocation(err, None))]
    ELSE [r EXCEPT !.cbs = Append(@, Invocation(NoErr, r.output))]

\* debug's cb: the function log, stages or exec passed as its last argument.
cb(r, err) ==
    CASE r.api = "log" -> logCb(r, err)
      [] r.api = "stages" -> stagesCb(r, err)
      [] r.api = "exec" -> execCb(r, err)

\* ------------------------------------------------------------ the hooks
NoResults == None
Entry(queryPart, results) == [query |-> queryPart, results |-> results]
EmptyEntry == [query |-> None, results |-> NoResults]

logBeforeEach(r, queryPart, index) ==
    [r EXCEPT !.console = @ + (IF r.showQuery THEN 3 ELSE 1)]

logAfterEach(r, results, index) ==
    [r EXCEPT !.console = @ + 2]

stagesBeforeEach(r, queryPart, index) ==
    [r EXCEPT !.output = Append(@, Entry(Some(queryPart), NoResults))]

\* output[index] = output[index] || {}; output[index].results = results
stagesAfterEach(r, results, index) ==
    LET n == Len(r.output)
        padded == [i \in 1..(IF index + 1 > n THEN index + 1 ELSE n) |->
                      IF i <= n THEN r.output[i] ELSE EmptyEntry]
    IN  [r EXCEPT !.output = [padded EXCEPT ![index + 1].results = Some(results)]]

execAfterEach(r, results, index) ==
    [r EXCEPT !.output = Some(results)]

HookCall(hook, index, queryPart, results) ==
    [hook |-> hook, index |-> index, queryPart |-> queryPart, results |-> results]

\* What can be passed as a hook: a function or a value that cannot be called.
HookArgs == {"function", "null", "undefined"}
\* The third and fourth arguments log, stages and exec give to debug.
passedBeforeEach(api) == IF api = "exec" THEN "null" ELSE "function"
passedAfterEach(api) == "function"

\* The hook used as it was passed.
defaultHook_Keep(hook) == hook

\* if (typeof hook !== 'function') { hook = function () {}; }
defaultHook(hook) == IF hook # "function" THEN "noop" ELSE hook

\* beforeEach(queryPart, index) as debug calls it, after the defaulting:
\* the caller's function, the empty function, or a TypeError when the value
\* is not callable.
beforeEach(r, queryPart, index) ==
    LET hook == defaultHook(passedBeforeEach(r.api))
        called == [r EXCEPT !.hooks =
                      Append(@, HookCall("before", index, Some(queryPart), None))]
    IN  CASE hook = "noop" -> called
          [] hook = "function" /\ r.api = "log" ->
                logBeforeEach(called, queryPart, index)
          [] hook = "function" /\ r.api = "stages" ->
                stagesBeforeEach(called, queryPart, index)
          [] OTHER -> [r EXCEPT !.thrown = TRUE]

afterEach(r, results, index) ==
    LET hook == defaultHook(passedAfterEach(r.api))
        called == [r EXCEPT !.hooks =
                      Append(@, HookCall("after", index, None, Some(results)))]
    IN  CASE hook = "noop" -> called
          [] hook = "function" /\ r.api = "log" ->
                logAfterEach(called, results, index)
          [] hook = "function" /\ r.api = "stages" ->
                stagesAfterEach(called, results, index)
          [] hook = "function" /\ r.api = "exec" ->
                execAfterEach(called, results, index)
          [] OTHER -> [r EXCEPT !.thrown = TRUE]

\* ------------------------------------------------- engine operations issued
Op(name, pipeline) == [op |-> name, pipeline |-> pipeline]
\* An operation given a callback is pending until the engine answers it;
\* db.close() is called without a callback.
issue(r, name, pipeline) ==
    [r EXCEPT !.ops = Append(@, Op(name, pipeline)),
              !.pending = @ + (IF name = "close" THEN 0 ELSE 1)]

\* The engine answers the session's pending operation: its callback runs.
answered(r, ok) == [r EXCEPT !.pending = @ - 1, !.answers = Append(@, ok)]

\* What collection.aggregate returns: the engine's answer for one sub-pipeline
\* run over the records the store holds at that time.
Results(queryPart, docs) == [pipeline |-> queryPart, docs |-> docs]

\* ----------------------------------------------------- the series of debug
\* startTask with the hooks given the 1-based position of the task instead of
\* the 0-based index of the sub-pipeline.
startTask_IndexFromOne(r, k) ==
    IF r.thrown THEN [r EXCEPT !.pc = "thrown"]
    ELSE IF k <= Len(r.queryParts)
    THEN LET hooked == beforeEach(r, r.queryParts[k], k)
         IN  IF hooked.thrown THEN [hooked EXCEPT !.pc = "thrown"]
             ELSE [issue(hooked, "aggregate", r.queryParts[k])
                      EXCEPT !.pc = "aggregating", !.idx = k]
    ELSE [issue(r, "dropDatabase", <<>>) EXCEPT !.pc = "dropping"]

\* startTask as async.parallel would run the tasks: the dropDatabase task is
\* started together with the aggregation instead of after its callback.
startTask_Parallel(r, k) ==
    IF r.thrown THEN [r EXCEPT !.pc = "thrown"]
    ELSE IF k <= Len(r.queryParts)
    THEN LET hooked == beforeEach(r, r.queryParts[k], k - 1)
             aggregating == issue(hooked, "aggregate", r.queryParts[k])
         IN  IF hooked.thrown THEN [hooked EXCEPT !.pc = "thrown"]
             ELSE [issue(aggregating, "dropDatabase", <<>>)
                      EXCEPT !.pc = "aggregating", !.idx = k]
    ELSE [issue(r, "dropDatabase", <<>>) EXCEPT !.pc = "dropping"]

\* async.series starts task k of the series after insert: the aggregation of
\* queryParts[k], or, past the last one, the dropDatabase task.  A hook that
\* throws ends the session's chain of callbacks where it is.
startTask(r, k) ==
    IF r.thrown THEN [r EXCEPT !.pc = "thrown"]
    ELSE IF k <= Len(r.queryParts)
    THEN LET hooked == beforeEach(r, r.queryParts[k], k - 1)
         IN  IF hooked.thrown THEN [hooked EXCEPT !.pc = "thrown"]
             ELSE [issue(hooked, "aggregate", r.queryParts[k])
                      EXCEPT !.pc = "aggregating", !.idx = k]
    ELSE [issue(r, "dropDatabase", <<>>) EXCEPT !.pc = "dropping"]

\* seriesDone without the final cb() of the success path.
seriesDone_ForgetsCallback(r, err) ==
    IF err # NoErr
    THEN LET dropping == issue(r, "dropDatabase", <<>>)
             closed == issue(dropping, "close", <<>>)
         IN  [cb(closed, NoErr) EXCEPT !.pc = "errDropping", !.err = err]
    ELSE [issue(r, "close", <<>>) EXCEPT !.pc = "done"]

\* The final callback of async.series: on an error the drop is issued and the
\* code falls through to db.close() and cb() without waiting for it.
seriesDone(r, err) ==
    IF err # NoErr
    THEN LET dropping == issue(r, "dropDatabase", <<>>)
             closed == issue(dropping, "close", <<>>)
         IN  [cb(closed, NoErr) EXCEPT !.pc = "errDropping", !.err = err]
    ELSE [cb(issue(r, "close", <<>>), NoErr) EXCEPT !.pc = "done"]

\* The callback of the dropDatabase issued by the final callback.
errDropDone(r, anotherErr) ==
    LET closed == issue(r, "close", <<>>)
    IN  [cb(closed, IF anotherErr # NoErr THEN anotherErr ELSE r.err)
            EXCEPT !.pc = "done", !.anotherErr = anotherErr]

\* ------------------------------------------------------------ debug, sync
\* data after `if (!Array.isArray(data))`: an object is wrapped in an array.
\* validData without the truthiness test: typeof null is 'object'.
validData_NullIsObject(data) == data.type \in {"array", "object", "null"}

validData(data) == data.type = "array" \/ data.type = "object"
normalizeData(data) ==
    IF data.type = "object" THEN [type |-> "array", docs |-> <<"doc">>] ELSE data

\* my.debugDatabaseName || generateDatabaseName(): the name is the pid and
\* Date.now(); the clock may have advanced since it was last read.
generateDatabaseName(t) == t
buildConnectionUrl(name) ==
    IF debugDatabaseName # 0
    THEN name = debugDatabaseName /\ UNCHANGED <<debugDatabaseName, now>>
    ELSE /\ name \in now..MaxNow
         /\ now' = name
         /\ debugDatabaseName' = generateDatabaseName(name)

\* The synchronous part of debug, up to MongoClient.connect.  skipStages is
\* the fifth argument: the callback itself ("function") for log and stages,
\* true for exec.
debug(s, r, skipStages) ==
    /\ doSkipStages' = (IF skipStages = "function" THEN "false" ELSE skipStages)
    /\ UNCHANGED stores
    /\ IF ~validData(r.data)
       THEN /\ sess' = [sess EXCEPT ![s] = [cb(r, ErrInvalidData) EXCEPT !.pc = "done"]]
            /\ UNCHANGED <<debugDatabaseName, now>>
       ELSE IF ~r.query.isArray
       THEN /\ sess' = [sess EXCEPT ![s] =
                           [cb([r EXCEPT !.data = normalizeData(@)], ErrInvalidQuery)
                               EXCEPT !.pc = "done"]]
            /\ UNCHANGED <<debugDatabaseName, now>>
       ELSE \E name \in DbNames :
            /\ buildConnectionUrl(name)
            /\ sess' = [sess EXCEPT ![s] =
                           [issue([r EXCEPT !.data = normalizeData(@)], "connect", <<>>)
                               EXCEPT !.pc = "connecting", !.dbName = name]]

\* Sessions are numbered in the order of their calls: session s is the s-th
\* call of log, stages or exec made in the process.
callable(s) ==
    /\ sess[s].pc = "idle"
    /\ \A t \in Sessions : t < s => sess[t].pc # "idle"

\* --------------------------------------------------------------- actions
mongoAggregationDebugger ==
    /\ debugDatabaseName' = 0
    /\ UNCHANGED <<doSkipStages, now, stores, sess>>

log(s, data, query, showQuery) ==
    /\ callable(s)
    /\ debug(s, [sess[s] EXCEPT !.api = "log", !.data = data, !.query = query,
                                !.showQuery = showQuery, !.banners = @ + 1],
             "function")

stages(s, data, query) ==
    /\ callable(s)
    /\ debug(s, [sess[s] EXCEPT !.api = "stages", !.data = data, !.query = query,
                                !.output = <<>>],
             "function")

exec(s, data, query) ==
    /\ callable(s)
    /\ debug(s, [sess[s] EXCEPT !.api = "exec", !.data = data, !.query = query,
                                !.output = None],
             "true")

\* The callback of getMongoConnection.
connectDone(s, ok) ==
    /\ sess[s].pc = "connecting"
    /\ UNCHANGED <<debugDatabaseName, doSkipStages, now, stores>>
    /\ IF ~ok
       THEN sess' = [sess EXCEPT ![s] =
                        [cb(answered(@, ok), ErrConnect) EXCEPT !.pc = "done"]]
       ELSE LET queryParts == partitionQuery(sess[s].query.stages, doSkipStages = "true")
            IN  sess' = [sess EXCEPT ![s] =
                            [issue(answered(@, ok), "insert", <<>>)
                                EXCEPT !.pc = "inserting",
                                       !.skipStages = doSkipStages,
                                       !.queryParts = queryParts]]

\* The callback of collection.insert.
insertDone(s, ok) ==
    /\ sess[s].pc = "inserting"
    /\ UNCHANGED <<debugDatabaseName, doSkipStages, now>>
    /\ IF ok
       THEN /\ stores' = [stores EXCEPT ![sess[s].dbName] = @ \cup {s}]
            /\ sess' = [sess EXCEPT ![s] = startTask(answered(@, ok), 1)]
       ELSE /\ UNCHANGED stores
            /\ sess' = [sess EXCEPT ![s] = seriesDone(answered(@, ok), ErrInsert)]

\* aggregateDone with afterEach called before the test of err.
aggregateDone_AfterEachFirst(s, ok) ==
    /\ sess[s].pc = "aggregating"
    /\ UNCHANGED <<debugDatabaseName, doSkipStages, now, stores>>
    /\ LET r == answered(sess[s], ok)
           results == Results(r.queryParts[r.idx], stores[r.dbName])
           hooked == afterEach(r, results, r.idx - 1)
       IN  sess' = [sess EXCEPT ![s] =
                       IF ok THEN startTask(hooked, r.idx + 1)
                       ELSE seriesDone(hooked, ErrAggregate)]

\* The callback of collection.aggregate.
aggregateDone(s, ok) ==
    /\ sess[s].pc = "aggregating"
    /\ UNCHANGED <<debugDatabaseName, doSkipStages, now, stores>>
    /\ IF ok
       THEN LET r == answered(sess[s], ok)
                results == Results(r.queryParts[r.idx], stores[r.dbName])
            IN  sess' = [sess EXCEPT ![s] =
                            startTask(afterEach(r, results, r.idx - 1), r.idx + 1)]
       ELSE sess' = [sess EXCEPT ![s] = seriesDone(answered(@, ok), ErrAggregate)]

\* The callback of the series' dropDatabase task.
dropDatabaseDone(s, ok) ==
    /\ sess[s].pc = "dropping"
    /\ UNCHANGED <<debugDatabaseName, doSkipStages, now>>
    /\ IF ok
       THEN /\ stores' = [stores EXCEPT ![sess[s].dbName] = {}]
            /\ sess' = [sess EXCEPT ![s] = seriesDone(answered(@, ok), NoErr)]
       ELSE /\ UNCHANGED stores
            /\ sess' = [sess EXCEPT ![s] = seriesDone(answered(@, ok), ErrDrop)]

\* The callback of the dropDatabase issued after a failed series.
errDropDatabaseDone(s, ok) ==
    /\ sess[s].pc = "errDropping"
    /\ UNCHANGED <<debugDatabaseName, doSkipStages, now>>
    /\ IF ok
       THEN /\ stores' = [stores EXCEPT ![sess[s].dbName] = {}]
            /\ sess' = [sess EXCEPT ![s] = errDropDone(answered(@, ok), NoErr)]
       ELSE /\ UNCHANGED stores
            /\ sess' = [sess EXCEPT ![s] = errDropDone(answered(@, ok), ErrDrop)]

Init ==
    /\ debugDatabaseName = 0
    /\ doSkipStages = "undefined"
    /\ now = 1
    /\ stores = [n \in DbNames |-> {}]
    /\ sess = [s \in Sessions |-> IdleSession]

Next ==
    \/ mongoAggregationDebugger
    \/ \E s \in Sessions, data \in DataInputs, query \in QueryInputs :
          \/ \E showQuery \in BOOLEAN : log(s, data, query, showQuery)
          \/ stages(s, data, query)
          \/ exec(s, data, query)
    \/ \E s \in Sessions, ok \in BOOLEAN :
          \/ connectDone(s, ok)
          \/ insertDone(s, ok)
          \/ aggregateDone(s, ok)
          \/ dropDatabaseDone(s, ok)
          \/ errDropDatabaseDone(s, ok)

Spec == Init /\ [][Next]_vars

\* ------------------------------------------------- vocabulary of the claims
IsPrefix(a, b) == Len(a) <= Len(b) /\ a = SubSeq(b, 1, Len(a))
Count(ops, name) == Cardinality({i \in DOMAIN ops : ops[i].op = name})
IsAggregate(o) == o.op = "aggregate"
AggPipelines(r) ==
    LET aggs == SelectSeq(r.ops, IsAggregate)
    IN  [i \in DOMAIN aggs |-> aggs[i].pipeline]

Called(r) == r.pc # "idle"
ValidCall(r) == Called(r) /\ r.data.type = "array" /\ r.query.isArray
\* The connection succeeded: the series was built and insert was issued.
Connected(r) == Count(r.ops, "insert") > 0
DropOutstanding(r) == r.pc \in {"dropping", "errDropping"}
Active(r) == r.pc \notin {"idle", "done"}
\* Seeding and every sub-pipeline succeeded: the series reached its drop task.
AggregationsSucceeded(r) ==
    /\ Connected(r)
    /\ \/ r.pc = "dropping"
       \/ r.pc \in {"errDropping", "done"} /\ r.err \in {NoErr, ErrDrop}
\* Every engine operation of the session succeeded and the session ended.
RunSucceeded(r) == Connected(r) /\ r.pc = "done" /\ r.err = NoErr
\* The series failed at seeding or at a sub-pipeline.
ProcessingFailed(r) == r.err \in {ErrInsert, ErrAggregate}
Stages(r) == r.query.stages
\* The first k stages of the session's pipeline, in original order.
Prefix(r, k) == SubSeq(Stages(r), 1, k)

\* C1: a session that acquired a store has, whenever its completion callback
\* was invoked, issued dropDatabase exactly once, and that drop has completed.
C1_DropOnceBeforeCallback ==
    \A s \in Sessions :
        LET r == sess[s]
        IN  (Connected(r) /\ r.cbs # <<>>) =>
                /\ Count(r.ops, "dropDatabase") = 1
                /\ ~DropOutstanding(r)

\* C2: a run whose seeding or sub-pipeline failed is never reported to the
\* completion callback without an error.
C2_FailureNeverReportedAsSuccess ==
    \A s \in Sessions :
        LET r == sess[s]
        IN  ProcessingFailed(r) =>
                \A i \in DOMAIN r.cbs : r.cbs[i].err # NoErr

\* C3: when seeding or a sub-pipeline failed and the drop that follows fails
\* too, the error the completion callback receives is the original error.
C3_OriginalErrorIsPrimary ==
    \A s \in Sessions :
        LET r == sess[s]
        IN  (r.pc = "done" /\ ProcessingFailed(r) /\ r.anotherErr # NoErr) =>
                \A i \in DOMAIN r.cbs :
                    r.cbs[i].err # NoErr => r.cbs[i].err = r.err

\* C4: stages on N >= 1 stages, every engine operation succeeding, delivers
\* exactly N entries, entry i holding the first i stages (1-indexed) and the
\* engine's result for exactly that sub-pipeline.
C4_StagesDeliversPrefixes ==
    \A s \in Sessions :
        LET r == sess[s]
            N == Len(Stages(r))
        IN  (r.api = "stages" /\ ValidCall(r) /\ N >= 1 /\ RunSucceeded(r)) =>
                /\ Len(r.cbs) = 1
                /\ r.cbs[1].err = NoErr
                /\ r.cbs[1].output # None
                /\ LET output == r.cbs[1].output[1]
                   IN  /\ Len(output) = N
                       /\ \A i \in 1..Len(output) :
                             /\ output[i].query = Some(Prefix(r, i))
                             /\ output[i].results # None
                             /\ output[i].results[1].pipeline = Prefix(r, i)

\* C5: an exec session issues no aggregation but the full pipeline, and
\* issues it exactly once when seeding succeeded.
C5_ExecRunsFullPipelineOnce ==
    \A s \in Sessions :
        LET r == sess[s]
        IN  (r.api = "exec" /\ ValidCall(r)) =>
                /\ IsPrefix(AggPipelines(r), <<Stages(r)>>)
                /\ AggregationsSucceeded(r) => AggPipelines(r) = <<Stages(r)>>

\* C6: every session executes with the mode its own call chose: exec with
\* the full pipeline only, log and stages with the cumulative sub-pipelines.
C6_ModeOwnedByCall ==
    \A s \in Sessions :
        LET r == sess[s]
            own == IF r.api = "exec"
                   THEN <<Stages(r)>>
                   ELSE [i \in 1..Len(Stages(r)) |-> Prefix(r, i)]
        IN  Connected(r) =>
                /\ r.skipStages = (IF r.api = "exec" THEN "true" ELSE "false")
                /\ IsPrefix(AggPipelines(r), own)
                /\ AggregationsSucceeded(r) => AggPipelines(r) = own

\* C7: two sessions that overlap in time use differently named stores, and no
\* aggregation of a session reads records another session seeded.
C7_StoresIsolated ==
    /\ \A s, t \in Sessions :
          (s # t /\ Active(sess[s]) /\ Active(sess[t])) =>
              sess[s].dbName # sess[t].dbName
    /\ \A s \in Sessions : \A i \in DOMAIN sess[s].hooks :
          LET h == sess[s].hooks[i]
          IN  h.hook = "after" => h.results[1].docs \subseteq {s}

\* C8: in a session that runs in cumulative mode the hooks are invoked in the
\* order before(0), after(0), before(1), after(1), ...: each with its own
\* index, before(i) with the first i+1 stages and after(i) with the engine's
\* result for that sub-pipeline; once every sub-pipeline has succeeded each
\* of the 2N hooks was invoked exactly once.
C8_HookOrder ==
    \A s \in Sessions :
        LET r == sess[s]
            N == Len(Stages(r))
        IN  (Connected(r) /\ r.skipStages = "false") =>
                /\ Len(r.hooks) <= 2 * N
                /\ \A j \in DOMAIN r.hooks :
                      LET h == r.hooks[j]
                          i == (j - 1) \div 2
                      IN  /\ h.index = i
                          /\ IF j % 2 = 1
                             THEN /\ h.hook = "before"
                                  /\ h.queryPart = Some(Prefix(r, i + 1))
                             ELSE /\ h.hook = "after"
                                  /\ h.results # None
                                  /\ h.results[1].pipeline = Prefix(r, i + 1)
                /\ AggregationsSucceeded(r) => Len(r.hooks) = 2 * N

\* A cumulative session of two stages whose sub-pipelines both succeeded.
C8_Witness ==
    \E s \in Sessions :
        /\ sess[s].skipStages = "false"
        /\ Len(Stages(sess[s])) = 2
        /\ AggregationsSucceeded(sess[s])
        /\ Len(sess[s].hooks) = 4

\* C9: a call whose records are null or a primitive, or whose pipeline is not
\* an array, has ended with one error given to its completion callback and
\* has issued no engine operation at all.
C9_ValidationBeforeSideEffects ==
    \A s \in Sessions :
        LET r == sess[s]
        IN  (Called(r) /\ (r.data.type \notin {"array", "object"} \/ ~r.query.isArray)) =>
                /\ r.pc = "done"
                /\ r.ops = <<>>
                /\ r.dbName = 0
                /\ Len(r.cbs) = 1
                /\ r.cbs[1].err # NoErr

\* A call with null records and one with a pipeline that is not an array.
C9_Witness ==
    /\ \E s \in Sessions :
          Called(sess[s]) /\ sess[s].data.type = "null" /\ sess[s].query.isArray
    /\ \E s \in Sessions :
          Called(sess[s]) /\ sess[s].data.type = "array" /\ ~sess[s].query.isArray

\* C10: with an empty pipeline and valid records, stages issues no
\* aggregation and, every engine operation succeeding, delivers an empty
\* output without error after one connect, one insert and one drop; exec
\* issues exactly one aggregation, of the empty pipeline.
C10_EmptyPipeline ==
    \A s \in Sessions :
        LET r == sess[s]
        IN  (ValidCall(r) /\ Stages(r) = <<>>) =>
                /\ r.api = "stages" =>
                      /\ AggPipelines(r) = <<>>
                      /\ RunSucceeded(r) =>
                            /\ r.cbs = <<Invocation(NoErr, Some(<<>>))>>
                            /\ Count(r.ops, "connect") = 1
                            /\ Count(r.ops, "insert") = 1
                            /\ Count(r.ops, "dropDatabase") = 1
                /\ r.api = "exec" =>
                      /\ IsPrefix(AggPipelines(r), <<Stages(r)>>)
                      /\ AggregationsSucceeded(r) => AggPipelines(r) = <<Stages(r)>>

\* C11: exec gives its callback the result set of the full pipeline when the
\* run succeeded, and an undefined result set in every invocation of a run
\* that failed at seeding, at the aggregation or at the store drop.
C11_ExecOutput ==
    \A s \in Sessions :
        LET r == sess[s]
        IN  (r.api = "exec" /\ ValidCall(r)) =>
                /\ RunSucceeded(r) =>
                      /\ r.cbs # <<>>
                      /\ \A i \in DOMAIN r.cbs :
                            /\ r.cbs[i].output # None
                            /\ r.cbs[i].output[1].pipeline = Stages(r)
                /\ r.err # NoErr =>
                      \A i \in DOMAIN r.cbs : r.cbs[i].output = None

\* C12: the completion callback of a call is invoked at most once, and
\* exactly once when the call has ended.
C12_CallbackExactlyOnce ==
    \A s \in Sessions :
        /\ Len(sess[s].cbs) <= 1
        /\ sess[s].pc = "done" => Len(sess[s].cbs) = 1

\* C14: an acquired connection is closed at most once, exactly once when the
\* session has ended, and never while a store drop is outstanding.
C14_CloseOnceAfterDrop ==
    \A s \in Sessions :
        LET r == sess[s]
        IN  Connected(r) =>
                /\ Count(r.ops, "close") <= 1
                /\ r.pc = "done" => Count(r.ops, "close") = 1
                /\ Count(r.ops, "close") > 0 =>
                      /\ ~DropOutstanding(r)
                      /\ Count(r.ops, "dropDatabase") > 0

\* The operations of a session that the engine answers, in the order issued.
HasCallback(o) == o.op # "close"
EngineOps(r) == SelectSeq(r.ops, HasCallback)
Rank(o) ==
    CASE o.op = "connect" -> 0
      [] o.op = "insert" -> 1
      [] o.op = "aggregate" -> 2
      [] o.op = "dropDatabase" -> 3
IsAfter(h) == h.hook = "after"
Afters(r) == Len(SelectSeq(r.hooks, IsAfter))

\* C13: within a session at most one engine operation is outstanding; insert
\* is issued once, after the connection succeeded and before any aggregation;
\* an aggregation is issued only when the result of the one before it was
\* given to the after-hook; a drop is issued only when the connect, the
\* insert and every aggregation issued have been answered.
C13_SequentialOperations ==
    \A s \in Sessions :
        LET r == sess[s]
            e == EngineOps(r)
        IN  /\ r.pending \in {0, 1}
            /\ Len(r.answers) + r.pending = Len(e)
            /\ Count(e, "insert") <= 1
            /\ e # <<>> => e[1].op = "connect"
            /\ Count(e, "insert") = 1 => (r.answers # <<>> /\ r.answers[1])
            /\ \A i, j \in DOMAIN e : i < j => Rank(e[i]) <= Rank(e[j])
            /\ Afters(r) >= Count(e, "aggregate") - 1
            /\ Count(e, "dropDatabase") > 0 =>
                  /\ Afters(r) >= Count(e, "aggregate") - 1
                  /\ Len(r.answers) >=
                        Count(e, "connect") + Count(e, "insert") + Count(e, "aggregate")

\* A session that ran two aggregations and then issued its drop.
C13_Witness ==
    \E s \in Sessions :
        /\ Count(sess[s].ops, "aggregate") = 2
        /\ Count(sess[s].ops, "dropDatabase") = 1
        /\ Afters(sess[s]) = 2
        /\ sess[s].pc = "done"

\* C15: once the engine has failed sub-pipeline i, the after-hook is not
\* invoked for i, no hook has an index above i, and the aggregations issued
\* stay the i+1 issued up to the failed one; once seeding has failed no hook
\* is invoked and no aggregation is issued.
C15_FailFast ==
    \A s \in Sessions :
        LET r == sess[s]
            i == r.idx - 1
        IN  /\ r.err = ErrAggregate =>
                  /\ r.hooks # <<>>
                  /\ r.hooks[Len(r.hooks)].hook = "before"
                  /\ r.hooks[Len(r.hooks)].index = i
                  /\ \A j \in DOMAIN r.hooks :
                        /\ r.hooks[j].index <= i
                        /\ r.hooks[j].hook = "after" => r.hooks[j].index < i
                  /\ Count(r.ops, "aggregate") = i + 1
                  /\ \A j, k \in DOMAIN r.hooks :
                        (j # k /\ r.hooks[j].hook = r.hooks[k].hook) =>
                            r.hooks[j].index # r.hooks[k].index
            /\ r.err = ErrInsert =>
                  /\ r.hooks = <<>>
                  /\ Count(r.ops, "aggregate") = 0

\* A session whose second sub-pipeline failed and that has ended, and one
\* whose seeding failed and that has ended.
C15_Witness ==
    /\ \E s \in Sessions :
          /\ sess[s].err = ErrAggregate
          /\ sess[s].idx = 2
          /\ sess[s].pc = "done"
    /\ \E s \in Sessions :
          sess[s].err = ErrInsert /\ sess[s].pc = "done"

\* The engine answers the operation session s has pending.
EngineAnswers(s) ==
    \E ok \in BOOLEAN :
        \/ connectDone(s, ok)
        \/ insertDone(s, ok)
        \/ aggregateDone(s, ok)
        \/ dropDatabaseDone(s, ok)
        \/ errDropDatabaseDone(s, ok)

\* The program with an engine that eventually answers every operation.
FairSpec == Spec /\ \A s \in Sessions : WF_vars(EngineAnswers(s))

\* The call has ended: its callback was invoked and either no connection was
\* acquired, or the drop was issued and answered and the connection closed.
Terminal(r) ==
    /\ r.pc = "done"
    /\ r.cbs # <<>>
    /\ r.pending = 0
    /\ Connected(r) =>
          /\ Count(r.ops, "dropDatabase") > 0
          /\ Count(r.ops, "close") > 0

\* C16: with an engine that answers every operation, every call of log,
\* stages or exec eventually reaches its terminal state and stays in it (a
\* call, once made, stays made).
C16_EveryCallTerminates ==
    \A s \in Sessions : <>[](Called(sess[s]) => Terminal(sess[s]))

\* A session that acquired a connection and reached its terminal state.
C16_Witness ==
    \E s \in Sessions : Connected(sess[s]) /\ Terminal(sess[s])

\* ------------------------------------------------- the records argument
\* An array whose second element is a number instead of a record.
DataMixedArray == [type |-> "array", docs |-> <<"doc", "number">>]
RecordInputs == DataInputs \cup {DataMixedArray}

\* A call of any of the three entry points with these arguments.
Calls(s, data, query) ==
    \/ \E showQuery \in BOOLEAN : log(s, data, query, showQuery)
    \/ stages(s, data, query)
    \/ exec(s, data, query)

\* The sessions whose call can be made when the calls are made one after the
\* other: every call before it has ended.
InTurn == {s \in Sessions : \A t \in Sessions : t < s => sess[t].pc = "done"}

\* The program with its calls made one after the other, each when the one
\* before it has ended, and the records drawn from RecordInputs.
NextRecords ==
    \/ mongoAggregationDebugger
    \/ \E s \in InTurn, data \in RecordInputs, query \in QueryInputs :
          \/ \E showQuery \in BOOLEAN : log(s, data, query, showQuery)
          \/ stages(s, data, query)
          \/ exec(s, data, query)
    \/ \E s \in Sessions, ok \in BOOLEAN :
          \/ connectDone(s, ok)
          \/ insertDone(s, ok)
          \/ aggregateDone(s, ok)
          \/ dropDatabaseDone(s, ok)
          \/ errDropDatabaseDone(s, ok)

SpecRecords == Init /\ [][NextRecords]_vars

HasNonRecord(data) ==
    data.type = "array" /\ \E i \in DOMAIN data.docs : data.docs[i] # "doc"
\* The call ended at once with the invalid-data error and touched no store.
RejectedAsInvalidData(r) ==
    /\ r.pc = "done"
    /\ r.ops = <<>>
    /\ r.dbName = 0
    /\ r.cbs = <<Invocation(ErrInvalidData, None)>>

\* C17: a call whose records are an array holding an element that is not a
\* record ends at once with the invalid-data error, like a call whose records
\* are a primitive or null, and issues no engine operation; a call with a
\* single record goes on with the one-element array of that record.
C17_RecordsValidated ==
    [][\A s \in Sessions, data \in RecordInputs, query \in QueryInputs :
          Calls(s, data, query) =>
              /\ (HasNonRecord(data) \/ data.type \in {"null", "number"}) =>
                    RejectedAsInvalidData(sess'[s])
              /\ data = DataObject =>
                    /\ sess'[s].data = [type |-> "array", docs |-> <<"doc">>]
                    /\ ~RejectedAsInvalidData(sess'[s])]_vars

\* ------------------------------------- partitionQuery on array references
\* A heap is a sequence of arrays and a reference is an index into it.  The
\* elements of an array are the stage objects, which _.clone (shallow) and
\* push share and never copy.  The caller's query is the array at QueryRef.
QueryRef == 1

\* queryParts[index - 1] taken as it is, without _.clone.
clone_Alias(heap, ref) == [heap |-> heap, ref |-> ref]

\* _.clone(array): a new array with the same elements.
clone(heap, ref) == [heap |-> Append(heap, heap[ref]), ref |-> Len(heap) + 1]

\* array.push(element)
push(heap, ref, element) == [heap EXCEPT ![ref] = Append(@, element)]

\* The forEach loop of partitionQuery after its first k iterations: the heap
\* and the references queryParts holds.
RECURSIVE queryPartRefsAfter(_, _)
queryPartRefsAfter(query, k) ==
    IF k = 0 THEN [heap |-> <<query>>, queryParts |-> <<>>]
    ELSE LET before == queryPartRefsAfter(query, k - 1)
             queryPart == before.heap[QueryRef][k]
         IN  IF k = 1
             THEN [heap |-> Append(before.heap, <<queryPart>>),
                   queryParts |-> Append(before.queryParts, Len(before.heap) + 1)]
             ELSE LET part == clone(before.heap, before.queryParts[k - 1])
                  IN  [heap |-> push(part.heap, part.ref, queryPart),
                       queryParts |-> Append(before.queryParts, part.ref)]

partitionQueryRefs(query, skipStages) ==
    IF skipStages
    THEN [heap |-> <<query>>, queryParts |-> <<QueryRef>>]
    ELSE queryPartRefsAfter(query, Len(query))

\* The heaps a caller can make of heap by appending a stage to the array at
\* ref or by removing its last element.
Mutated(heap, ref) ==
    {push(heap, ref, StageNames[i]) : i \in DOMAIN StageNames}
        \cup (IF heap[ref] = <<>> THEN {}
              ELSE {[heap EXCEPT ![ref] = SubSeq(@, 1, Len(@) - 1)]})

\* C18: cumulative partitioning leaves the caller's pipeline as it was and
\* gives every sub-pipeline an array of its own, holding what the session
\* ran: appending to or removing from sub-pipeline i changes neither another
\* sub-pipeline nor the caller's pipeline.
C18_PartsIndependent ==
    \A s \in Sessions :
        LET r == sess[s]
            p == partitionQueryRefs(Stages(r), FALSE)
        IN  (Connected(r) /\ r.skipStages = "false") =>
                /\ p.heap[QueryRef] = Stages(r)
                /\ [i \in DOMAIN p.queryParts |-> p.heap[p.queryParts[i]]] = r.queryParts
                /\ \A i \in DOMAIN p.queryParts :
                      /\ p.queryParts[i] # QueryRef
                      /\ \A m \in Mutated(p.heap, p.queryParts[i]) :
                            /\ m[QueryRef] = Stages(r)
                            /\ \A j \in DOMAIN p.queryParts :
                                  j # i => m[p.queryParts[j]] = p.heap[p.queryParts[j]]

\* A session that partitioned a pipeline of MaxStages stages cumulatively and
\* has run every sub-pipeline.
C18_Witness ==
    \E s \in Sessions :
        /\ sess[s].skipStages = "false"
        /\ Len(Stages(sess[s])) = MaxStages
        /\ Len(sess[s].queryParts) = MaxStages
        /\ AggregationsSucceeded(sess[s])

\* The errors a session's completion callback was given.
DeliveredErrors(r) == {r.cbs[i].err : i \in DOMAIN r.cbs} \ {NoErr}
\* The engine failed the session's sub-pipeline i (0-based), the drop that
\* followed succeeded and the session has ended.
FailedAtStage(r, i) ==
    /\ r.pc = "done"
    /\ r.err = ErrAggregate
    /\ r.anotherErr = NoErr
    /\ r.idx - 1 = i

\* C19: the error given to the completion callback when the engine failed
\* sub-pipeline i carries i, so that the failing index can be read from the
\* error: sessions that failed at different sub-pipelines are not given the
\* same error.
C19_ErrorIdentifiesStage ==
    \A s, t \in Sessions : \A i, j \in 0..(MaxStages - 1) :
        (FailedAtStage(sess[s], i) /\ FailedAtStage(sess[t], j) /\ i # j) =>
            DeliveredErrors(sess[s]) \cap DeliveredErrors(sess[t]) = {}

\* The errors given to the session's completion callback, in order.
CallbackErrors(r) == [i \in DOMAIN r.cbs |-> r.cbs[i].err]
\* The session's before-hook was passed as a value that cannot be called.
DefaultedHooks(r) == passedBeforeEach(r.api) # "function"
CallableHooks(r) ==
    passedBeforeEach(r.api) = "function" /\ passedAfterEach(r.api) = "function"
\* Two sessions that ran the same sub-pipelines with the same engine answers.
SameRun(r, q) ==
    /\ Connected(r) /\ Connected(q)
    /\ r.queryParts = q.queryParts
    /\ r.answers = q.answers

\* C20: a hook that is not a function is replaced by one that does nothing:
\* no hook call ever throws, and a session whose before-hook was passed as
\* null issues the same engine operations in the same order and gives its
\* callback the same errors as a session with callable hooks that ran the
\* same sub-pipelines with the same engine answers.
C20_MissingHooksAreNoOps ==
    /\ \A hook \in HookArgs : defaultHook(hook) \in {"function", "noop"}
    /\ \A s \in Sessions : ~sess[s].thrown /\ sess[s].pc # "thrown"
    /\ \A s, t \in Sessions :
          LET r == sess[s]
              q == sess[t]
          IN  (DefaultedHooks(r) /\ CallableHooks(q) /\ SameRun(r, q)) =>
                  /\ r.ops = q.ops
                  /\ r.pc = q.pc
                  /\ r.err = q.err
                  /\ r.anotherErr = q.anotherErr
                  /\ CallbackErrors(r) = CallbackErrors(q)

\* An exec session whose defaulted before-hook was called, and a session with
\* callable hooks that ran the same sub-pipelines with the same answers, both
\* ended.
C20_Witness ==
    \E s, t \in Sessions :
        /\ DefaultedHooks(sess[s]) /\ CallableHooks(sess[t])
        /\ SameRun(sess[s], sess[t])
        /\ sess[s].hooks # <<>>
        /\ sess[s].pc = "done" /\ sess[t].pc = "done"

\* The console.log calls the hooks of log make for one sub-pipeline.
LinesPerStage(r) == IF r.showQuery THEN 5 ELSE 3

\* C21: when the completion callback of a log call on N stages is invoked
\* after every sub-pipeline succeeded, log has written exactly 3N console
\* lines with showQuery off and exactly 5N with showQuery on.
C21_ConsoleLines ==
    \A s \in Sessions :
        LET r == sess[s]
        IN  (r.api = "log" /\ ValidCall(r) /\ AggregationsSucceeded(r) /\ r.cbs # <<>>) =>
                r.console = LinesPerStage(r) * Len(Stages(r))

\* C22: a log call with invalid records or an invalid pipeline writes no
\* banner and no console line; its only effect is the one error given to the
\* completion callback.
C22_InvalidLogIsSilent ==
    \A s \in Sessions :
        LET r == sess[s]
        IN  (r.api = "log" /\ Called(r) /\ ~ValidCall(r)) =>
                /\ r.banners = 0
                /\ r.console = 0
                /\ r.ops = <<>>
                /\ Len(r.cbs) = 1
                /\ r.cbs[1].err \in {ErrInvalidData, ErrInvalidQuery}

====
